---- MODULE Spec2Model ----
(***************************************************************************)
(* A model of lis.py, a small Scheme interpreter written in Python:        *)
(* the reader (read_from_tokens, atom), the environment (Env), closures    *)
(* (Procedure) and the evaluator (eval) driven line by line by repl.       *)
(*                                                                         *)
(* Three specifications share the module:                                  *)
(*   Spec      the read-eval-print loop: eval as a stack machine over the  *)
(*             heap of Env frames, one submitted expression per line;      *)
(*   SpecRead  read_from_tokens applied to every bounded token list;       *)
(*   SpecAtom  atom applied to every bounded token.                        *)
(*                                                                         *)
(* Python values are tagged records: [t |-> "int", v |-> 1],               *)
(* [t |-> "sym", v |-> "x"], [t |-> "list", v |-> <<...>>],                *)
(* [t |-> "none"], [t |-> "bool", v |-> TRUE], [t |-> "prim", v |-> "not"] *)
(* and [t |-> "proc", params, body, env] for a Procedure object.           *)
(* In the reader a token is the sequence of its characters, because atom   *)
(* looks inside it; the evaluator only compares symbol names, so there a   *)
(* name is a string.                                                       *)
(***************************************************************************)
EXTENDS Integers, Sequences, FiniteSets, TLC

VARIABLES
    heap,    \* the Env objects: heap[i] = [vars |-> dict, outer |-> index, 0 for None]
    ctl,     \* what the interpreter is doing: idle / eval / ret / raise / done
    stack,   \* the Python call stack of suspended eval activations
    lines,   \* number of lines the repl has read
    log,     \* the eval calls and callable invocations of the current line, in order
    last,    \* the step the interpreter took last, with what it decided
    src,     \* the argument handed to the reader function under test
    out      \* what that function returned or raised

vars == <<heap, ctl, stack, lines, log, last, src, out>>

\* ---------------------------------------------------------------- bounds

\* Lines the repl reads in one run.
MaxLines == 2
\* Tokens in a token list given to read_from_tokens.
MaxTokens == 4
\* Characters in a token given to atom.
MaxTokLen == 3

\* ---------------------------------------------------------------- values

IntV(n) == [t |-> "int", v |-> n]
FloatV(m, e) == [t |-> "float", m |-> m, e |-> e]    \* the number m * 10^e
SymV(s) == [t |-> "sym", v |-> s]
ListV(s) == [t |-> "list", v |-> s]
BoolV(b) == [t |-> "bool", v |-> b]
PrimV(name) == [t |-> "prim", v |-> name]
NoneV == [t |-> "none"]

Ok(v) == [st |-> "ok", val |-> v]
Raised(e) == [st |-> "raise", err |-> e]

\* ---------------------------------------------------------------- atom

Digits == {"0", "1", "2", "3", "4", "5", "6", "7", "8", "9"}

DigitVal(c) ==
    CASE c = "0" -> 0 [] c = "1" -> 1 [] c = "2" -> 2 [] c = "3" -> 3
      [] c = "4" -> 4 [] c = "5" -> 5 [] c = "6" -> 6 [] c = "7" -> 7
      [] c = "8" -> 8 [] c = "9" -> 9

Drop(s, k) == SubSeq(s, k + 1, Len(s))

\* str.lstrip(c): every leading c is removed.
RECURSIVE LStrip(_, _)
LStrip(s, c) ==
    IF s # <<>> /\ s[1] = c THEN LStrip(Tail(s), c) ELSE s

\* str.replace(pat, "", 1): the first occurrence of pat is removed.
ReplaceFirst(s, pat) ==
    LET n == Len(pat)
        hits == {i \in 1..(Len(s) - n + 1) : SubSeq(s, i, i + n - 1) = pat}
    IN  IF hits = {} THEN s
        ELSE LET i == CHOOSE j \in hits : \A k \in hits : j <= k
             IN  SubSeq(s, 1, i - 1) \o Drop(s, i + n - 1)

\* str.isdigit(): at least one character, and all of them digits.
IsDigit(s) == s # <<>> /\ \A i \in 1..Len(s) : s[i] \in Digits

\* The test of atom's if statement.
LooksNumeric(token) ==
    IsDigit(ReplaceFirst(ReplaceFirst(ReplaceFirst(LStrip(token, "-"),
                <<".">>), <<"e", "-">>), <<"e">>))

RECURSIVE DigitsVal(_)
DigitsVal(s) ==
    IF s = <<>> THEN 0 ELSE 10 * DigitsVal(SubSeq(s, 1, Len(s) - 1)) + DigitVal(s[Len(s)])

\* Length of the longest prefix of digits.
RECURSIVE SpanDigits(_)
SpanDigits(s) ==
    IF s # <<>> /\ s[1] \in Digits THEN 1 + SpanDigits(Tail(s)) ELSE 0

\* int(token) on a token without blanks, '+' or '_': an optional '-' and digits.
IntOf(token) ==
    LET body == IF token # <<>> /\ token[1] = "-" THEN Tail(token) ELSE token
    IN  IF IsDigit(body)
        THEN Ok(IF body = token THEN DigitsVal(body) ELSE 0 - DigitsVal(body))
        ELSE Raised("ValueError")

\* float(token) on such a token: [-] digits [. digits] [e [-] digits], with a
\* digit before or after the point. The value is m * 10^e.
FloatOf(token) ==
    LET neg == token # <<>> /\ token[1] = "-"
        s1 == IF neg THEN Tail(token) ELSE token
        k1 == SpanDigits(s1)
        s2 == Drop(s1, k1)
        dot == s2 # <<>> /\ s2[1] = "."
        s3 == IF dot THEN Tail(s2) ELSE s2
        k2 == IF dot THEN SpanDigits(s3) ELSE 0
        s4 == Drop(s3, k2)
        ex == s4 # <<>> /\ s4[1] = "e"
        s5 == IF ex THEN Tail(s4) ELSE s4
        eneg == ex /\ s5 # <<>> /\ s5[1] = "-"
        s6 == IF eneg THEN Tail(s5) ELSE s5
        k3 == IF ex THEN SpanDigits(s6) ELSE 0
        s7 == Drop(s6, k3)
        mant == DigitsVal(SubSeq(s1, 1, k1) \o SubSeq(s3, 1, k2))
        expo == DigitsVal(SubSeq(s6, 1, k3))
    IN  IF k1 + k2 > 0 /\ (ex => k3 > 0) /\ s7 = <<>>
        THEN Ok([m |-> IF neg THEN 0 - mant ELSE mant,
                 e |-> (IF eneg THEN 0 - expo ELSE expo) - k2])
        ELSE Raised("ValueError")

RECURSIVE Pow10(_)
Pow10(k) == IF k = 0 THEN 1 ELSE 10 * Pow10(k - 1)

\* int == float, exact for the magnitudes the bounded tokens reach.
IntEqFloat(n, f) ==
    IF f.e >= 0 THEN n = f.m * Pow10(f.e) ELSE n * Pow10(0 - f.e) = f.m

\* atom(token): int(token) is evaluated first, then float(token); either may raise.
atom(token) ==
    IF LooksNumeric(token)
    THEN LET i == IntOf(token)
         IN  IF i.st = "raise" THEN i
             ELSE LET f == FloatOf(token)
                  IN  IF f.st = "raise" THEN f
                      ELSE IF IntEqFloat(i.val, f.val)
                           THEN Ok(IntV(i.val))
                           ELSE Ok(FloatV(f.val.m, f.val.e))
    ELSE Ok(SymV(token))

\* ---------------------------------------------------------------- reader

\* read_from_tokens(tokens). The token list is consumed from the front; the
\* result carries what is left of it. ReadList is the while loop of the "("
\* case: tokens[0] on an empty list is Python's IndexError.
RECURSIVE read_from_tokens(_)
RECURSIVE ReadList(_, _)
read_from_tokens(tokens) ==
    IF Len(tokens) = 0 THEN Raised("SyntaxError")
    ELSE LET token == Head(tokens)
             rest == Tail(tokens)
         IN  IF token = <<"(">> THEN ReadList(rest, <<>>)
             ELSE IF token = <<")">> THEN Raised("SyntaxError")
             ELSE LET a == atom(token)
                  IN  IF a.st = "raise" THEN a
                      ELSE [st |-> "ok", val |-> a.val, rest |-> rest]

ReadList(tokens, L) ==
    IF tokens = <<>> THEN Raised("IndexError")
    ELSE IF tokens[1] = <<")">> THEN [st |-> "ok", val |-> ListV(L), rest |-> Tail(tokens)]
    ELSE LET r == read_from_tokens(tokens)
         IN  IF r.st = "raise" THEN r
             ELSE ReadList(r.rest, Append(L, r.val))

\* ---------------------------------------------------------------- expressions

Quote(e) == ListV(<<SymV("quote"), e>>)
If(t, c, a) == ListV(<<SymV("if"), t, c, a>>)
Define(s, e) == ListV(<<SymV("define"), SymV(s), e>>)
SetBang(s, e) == ListV(<<SymV("set!"), SymV(s), e>>)
Lambda(ps, body) == ListV(<<SymV("lambda"), ListV([i \in 1..Len(ps) |-> SymV(ps[i])]), body>>)
Call(f, args) == ListV(<<f>> \o args)

\* ---------------------------------------------------------------- Env

DictSet(d, k, v) == [s \in DOMAIN d \cup {k} |-> IF s = k THEN v ELSE d[s]]

\* dict.update(zip(params, args)): pairs up to the shorter length, a later pair
\* for the same name replacing an earlier one. params is a list of symbols.
ZipDict(params, args) ==
    LET n == IF Len(params.v) < Len(args) THEN Len(params.v) ELSE Len(args)
        names == {params.v[i].v : i \in 1..n}
        lastAt(s) == CHOOSE i \in 1..n :
                        params.v[i].v = s /\ \A j \in 1..n : params.v[j].v = s => j <= i
    IN  [s \in names |-> args[lastAt(s)]]

\* Env.__init__(params, args, outer)
NewEnv(params, args, outer) == [vars |-> ZipDict(params, args), outer |-> outer]

\* "not self.outer": outer is None, or it is a dict (an Env) without entries.
OuterIsFalsy(h, e) == h[e].outer = 0 \/ DOMAIN h[h[e].outer].vars = {}

\* Env.find(var): the index of the frame returned, 0 when it raises ValueError.
RECURSIVE Find(_, _, _)
Find(h, e, var) ==
    IF var \in DOMAIN h[e].vars THEN e
    ELSE IF OuterIsFalsy(h, e) THEN 0
    ELSE Find(h, h[e].outer, var)

\* standard_env(), restricted to three of its procedures; it has no outer.
standard_env ==
    [vars |-> [s \in {"not", "list", "begin"} |-> PrimV(s)], outer |-> 0]

\* ---------------------------------------------------------------- callables

\* Python's truth value of an object, as the conditional expression of "if" and
\* operator.not_ take it.
Truthy(v) ==
    CASE v.t = "none" -> FALSE
      [] v.t = "bool" -> v.v
      [] v.t = "int" -> v.v # 0
      [] v.t = "float" -> v.m # 0           \* m * 10^e is 0.0 exactly when m = 0
      [] v.t = "list" -> v.v # <<>>
      [] v.t = "sym" -> v.v # ""
      [] OTHER -> TRUE

\* The three procedures of standard_env applied to the argument tuple.
CallPrim(name, args) ==
    CASE name = "not" ->
            IF Len(args) = 1 THEN Ok(BoolV(~Truthy(args[1]))) ELSE Raised("TypeError")
      [] name = "list" -> Ok(ListV(args))
      [] name = "begin" ->
            IF args = <<>> THEN Raised("IndexError") ELSE Ok(args[Len(args)])

\* A different order: the operator, then the arguments from right to left.
EvalOrder_RightToLeft(n) == [j \in 1..n |-> IF j = 1 THEN 1 ELSE n + 2 - j]

\* The order in which eval evaluates the elements of an application: the
\* operator, then the arguments from left to right.
EvalOrder(n) == [j \in 1..n |-> j]

\* The values of the elements by position, from the values in evaluation order.
ByPosition(n, got) ==
    [i \in 1..n |-> got[CHOOSE j \in 1..n : EvalOrder(n)[j] = i]]

\* ---------------------------------------------------------------- the lines

X == SymV("x")
Y == SymV("y")

Atoms == {X, Y, IntV(0), IntV(1)}

Bodies == {X, Y, SymV("list"), SetBang("x", IntV(2)), Define("x", IntV(2))}

Effects == {X, IntV(1), Define("x", IntV(1)), SetBang("x", IntV(0))}

Tests == {IntV(0), IntV(1), X, Quote(ListV(<<>>)), Call(SymV("not"), <<IntV(1)>>),
          Call(SymV("not"), <<IntV(0)>>), Define("y", IntV(1)),
          Call(SymV("list"), <<IntV(0)>>), Lambda(<<>>, IntV(1))}

ParamLists == {<<>>, <<"x">>, <<"y">>}

ArgLists == {<<>>, <<IntV(1)>>, <<IntV(1), IntV(0)>>}

Malformed == {ListV(<<>>), ListV(<<SymV("quote")>>), ListV(<<SymV("if"), IntV(1), IntV(0)>>),
              ListV(<<SymV("define"), X>>), ListV(<<SymV("set!"), X>>),
              ListV(<<SymV("lambda"), ListV(<<>>)>>)}

Assignments ==
    {Define(s, e) : s \in {"x", "y"}, e \in Atoms}
    \cup {SetBang(s, e) : s \in {"x", "y"}, e \in Atoms}
    \cup {Define("x", Call(SymV("begin"), <<Define("x", IntV(1)), Y>>)),
          SetBang("x", Call(SymV("begin"), <<Define("x", IntV(1)), IntV(0)>>))}

Conditionals ==
    {If(t, IntV(1), IntV(0)) : t \in Tests}
    \cup {If(t, Define("x", IntV(1)), Define("y", IntV(0))) : t \in Tests}

PrimCalls ==
    {Call(SymV(p), <<a, b>>) : p \in {"list", "begin"}, a \in Effects, b \in Effects}
    \cup {Call(SymV("not"), <<>>), Call(SymV("begin"), <<>>), Call(SymV("list"), <<>>),
          Call(IntV(1), <<IntV(1)>>), Call(X, <<>>), Call(Y, <<>>), Call(Y, <<IntV(1)>>),
          Call(SymV("list"), <<Y, Define("x", IntV(1))>>)}

LambdaCalls ==
    {Call(Lambda(ps, b), av) : ps \in ParamLists \cup {<<"x", "y">>}, av \in ArgLists, b \in Bodies}

NestedCalls ==
    {Call(Lambda(ps1, Call(Lambda(ps2, b), av)), <<IntV(1)>>) :
        ps1 \in {<<>>, <<"x">>}, ps2 \in ParamLists, av \in {<<>>, <<IntV(0)>>}, b \in Bodies}

Closures ==
    {Define("y", Lambda(ps, b)) : ps \in {<<>>, <<"x">>}, b \in {X, SetBang("x", IntV(2))}}
    \cup {Define("y", Call(Lambda(ps1, Lambda(ps2, b)), <<IntV(1)>>)) :
            ps1 \in {<<>>, <<"x">>}, ps2 \in {<<>>, <<"y">>}, b \in {X, SetBang("x", IntV(2))}}

\* The expressions a line may hold (the results of parse).
Programs ==
    Atoms \cup {Quote(X)} \cup Malformed \cup Assignments \cup Conditionals
    \cup PrimCalls \cup LambdaCalls \cup NestedCalls \cup Closures

\* ---------------------------------------------------------------- eval

SpecialForms == {"quote", "if", "define", "set!", "lambda"}

IsList(x) == x.t = "list"
\* "op, *args = x" succeeded and op == name.
IsForm(x, name) == IsList(x) /\ x.v # <<>> /\ x.v[1] = SymV(name)
IsSpecial(x) == \E f \in SpecialForms : IsForm(x, f)
Args(x) == Tail(x.v)

\* The error the unpacking statements of eval raise on x, "" when there is none:
\* "op, *args = x" on the empty list, args[0] of a quote without argument, and
\* the tuple assignments of if, define, set! and lambda.
Unpack(x) ==
    IF x.v = <<>> THEN "ValueError"
    ELSE IF IsForm(x, "quote") THEN (IF Args(x) = <<>> THEN "IndexError" ELSE "")
    ELSE IF IsForm(x, "if") THEN (IF Len(Args(x)) # 3 THEN "ValueError" ELSE "")
    ELSE IF IsSpecial(x) THEN (IF Len(Args(x)) # 2 THEN "ValueError" ELSE "")
    ELSE ""

Top == stack[Len(stack)]
Pop(stk) == SubSeq(stk, 1, Len(stk) - 1)
ReplaceTop(stk, f) == Append(Pop(stk), f)

Evaluating == ctl.mode = "eval"
Returning(kind) == ctl.mode = "ret" /\ stack # <<>> /\ Top.k = kind

EvalEvent(x, env, d) == [ev |-> "eval", x |-> x, env |-> env, d |-> d]
CallEvent(f, n, d) == [ev |-> "call", f |-> f, n |-> n, d |-> d]

\* A call eval(x, env) made with stk as the suspended activations.
CallEval(x, env, stk) ==
    /\ ctl' = [mode |-> "eval", x |-> x, env |-> env]
    /\ stack' = stk
    /\ log' = Append(log, EvalEvent(x, env, Len(stk)))

Return(v, stk) ==
    /\ ctl' = [mode |-> "ret", val |-> v]
    /\ stack' = stk
    /\ log' = log

\* An exception raised in the running activation; the stack is left for Propagate.
Raise(e) ==
    /\ ctl' = [mode |-> "raise", err |-> e]
    /\ UNCHANGED <<stack, log>>

Reader == UNCHANGED <<src, out>>

\* repl reads a line and calls eval(parse(line)) with the default environment.
Submit(line) ==
    /\ ctl.mode = "idle"
    /\ lines < MaxLines
    /\ lines' = lines + 1
    /\ ctl' = [mode |-> "eval", x |-> line, env |-> 1]
    /\ stack' = <<>>
    /\ log' = <<EvalEvent(line, 1, 0)>>
    /\ last' = [op |-> "submit"]
    /\ UNCHANGED heap
    /\ Reader

\* isinstance(x, str): return env.find(x)[x]
EvalSymbol ==
    /\ Evaluating /\ ctl.x.t = "sym"
    /\ LET f == Find(heap, ctl.env, ctl.x.v)
       IN  IF f = 0 THEN Raise("ValueError") ELSE Return(heap[f].vars[ctl.x.v], stack)
    /\ last' = [op |-> "lookup", sym |-> ctl.x.v, env |-> ctl.env]
    /\ UNCHANGED <<heap, lines>>
    /\ Reader

\* not isinstance(x, list): return x
EvalConstant ==
    /\ Evaluating /\ ctl.x.t \notin {"sym", "list"}
    /\ Return(ctl.x, stack)
    /\ last' = [op |-> "constant"]
    /\ UNCHANGED <<heap, lines>>
    /\ Reader

\* A list that one of the unpacking statements rejects.
EvalMalformed ==
    /\ Evaluating /\ IsList(ctl.x) /\ Unpack(ctl.x) # ""
    /\ Raise(Unpack(ctl.x))
    /\ last' = [op |-> "unpack"]
    /\ UNCHANGED <<heap, lines>>
    /\ Reader

\* op == 'quote': return args[0]
EvalQuote ==
    /\ Evaluating /\ IsForm(ctl.x, "quote") /\ Unpack(ctl.x) = ""
    /\ Return(Args(ctl.x)[1], stack)
    /\ last' = [op |-> "quote"]
    /\ UNCHANGED <<heap, lines>>
    /\ Reader

\* op == 'if': eval(test, env) is called.
EvalIf ==
    /\ Evaluating /\ IsForm(ctl.x, "if") /\ Unpack(ctl.x) = ""
    /\ CallEval(Args(ctl.x)[1], ctl.env, Append(stack, [k |-> "if", x |-> ctl.x, env |-> ctl.env]))
    /\ last' = [op |-> "if-test"]
    /\ UNCHANGED <<heap, lines>>
    /\ Reader

\* The index in args of the branch the conditional expression of "if" selects.
Branch(test) == IF Truthy(test) THEN 2 ELSE 3

\* expression = (consequence if <test value> else alternative); return eval(expression, env)
IfBranch ==
    /\ Returning("if")
    /\ LET b == Branch(ctl.val)
       IN  /\ CallEval(Args(Top.x)[b], Top.env,
                       ReplaceTop(stack, [k |-> "wait", x |-> Top.x, env |-> Top.env]))
           /\ last' = [op |-> "if", test |-> ctl.val, branch |-> b]
    /\ UNCHANGED <<heap, lines>>
    /\ Reader

\* A define that enters the symbol in env, unset, before it evaluates the expression.
EvalDefine_BindFirst ==
    /\ Evaluating /\ IsForm(ctl.x, "define") /\ Unpack(ctl.x) = ""
    /\ CallEval(Args(ctl.x)[2], ctl.env,
                Append(stack, [k |-> "define", x |-> ctl.x, env |-> ctl.env]))
    /\ heap' = [heap EXCEPT ![ctl.env].vars = DictSet(@, Args(ctl.x)[1].v, NoneV)]
    /\ last' = [op |-> "define-value"]
    /\ UNCHANGED lines
    /\ Reader

\* op == 'define': the right-hand side eval(expression, env) is evaluated first.
EvalDefine ==
    /\ Evaluating /\ IsForm(ctl.x, "define") /\ Unpack(ctl.x) = ""
    /\ CallEval(Args(ctl.x)[2], ctl.env,
                Append(stack, [k |-> "define", x |-> ctl.x, env |-> ctl.env]))
    /\ last' = [op |-> "define-value"]
    /\ UNCHANGED <<heap, lines>>
    /\ Reader

\* A define that assigns where find locates the symbol, as set! does, and in
\* env only when find locates none.
DefineBind_ViaFind ==
    /\ Returning("define")
    /\ LET s == Args(Top.x)[1].v
           f == IF Find(heap, Top.env, s) = 0 THEN Top.env ELSE Find(heap, Top.env, s)
       IN  /\ heap' = [heap EXCEPT ![f].vars = DictSet(@, s, ctl.val)]
           /\ last' = [op |-> "define", sym |-> s, env |-> Top.env, val |-> ctl.val]
    /\ Return(NoneV, Pop(stack))
    /\ UNCHANGED lines
    /\ Reader

\* env[symbol] = <value>; eval returns None.
DefineBind ==
    /\ Returning("define")
    /\ LET s == Args(Top.x)[1].v
       IN  /\ heap' = [heap EXCEPT ![Top.env].vars = DictSet(@, s, ctl.val)]
           /\ last' = [op |-> "define", sym |-> s, env |-> Top.env, val |-> ctl.val]
    /\ Return(NoneV, Pop(stack))
    /\ UNCHANGED lines
    /\ Reader

\* op == 'set!': the right-hand side eval(expression, env) is evaluated first.
EvalSet ==
    /\ Evaluating /\ IsForm(ctl.x, "set!") /\ Unpack(ctl.x) = ""
    /\ CallEval(Args(ctl.x)[2], ctl.env,
                Append(stack, [k |-> "set", x |-> ctl.x, env |-> ctl.env]))
    /\ last' = [op |-> "set-value"]
    /\ UNCHANGED <<heap, lines>>
    /\ Reader

\* env.find(symbol)[symbol] = <value>; eval returns None, or find raises.
SetStore ==
    /\ Returning("set")
    /\ LET s == Args(Top.x)[1].v
           f == Find(heap, Top.env, s)
       IN  /\ IF f = 0
              THEN Raise("ValueError") /\ heap' = heap
              ELSE /\ heap' = [heap EXCEPT ![f].vars = DictSet(@, s, ctl.val)]
                   /\ Return(NoneV, Pop(stack))
           /\ last' = [op |-> "set!", sym |-> s, env |-> Top.env, val |-> ctl.val, frame |-> f]
    /\ UNCHANGED lines
    /\ Reader

\* op == 'lambda': return Procedure(params, body, env)
EvalLambda ==
    /\ Evaluating /\ IsForm(ctl.x, "lambda") /\ Unpack(ctl.x) = ""
    /\ Return([t |-> "proc", params |-> Args(ctl.x)[1], body |-> Args(ctl.x)[2],
               env |-> ctl.env], stack)
    /\ last' = [op |-> "lambda"]
    /\ UNCHANGED <<heap, lines>>
    /\ Reader

\* else: proc = eval(op, env) is called.
EvalApply ==
    /\ Evaluating /\ IsList(ctl.x) /\ ctl.x.v # <<>> /\ ~IsSpecial(ctl.x)
    /\ CallEval(ctl.x.v[EvalOrder(Len(ctl.x.v))[1]], ctl.env,
                Append(stack, [k |-> "app", x |-> ctl.x, env |-> ctl.env, got |-> <<>>]))
    /\ last' = [op |-> "apply-operator"]
    /\ UNCHANGED <<heap, lines>>
    /\ Reader

\* vals = [eval(arg, env) for arg in args]: the next element is evaluated.
ApplyNext ==
    /\ Returning("app")
    /\ Len(Top.got) + 1 < Len(Top.x.v)
    /\ LET got == Append(Top.got, ctl.val)
       IN  CallEval(Top.x.v[EvalOrder(Len(Top.x.v))[Len(got) + 1]], Top.env,
                    ReplaceTop(stack, [Top EXCEPT !.got = got]))
    /\ last' = [op |-> "apply-argument"]
    /\ UNCHANGED <<heap, lines>>
    /\ Reader

\* All elements of the application on top of the stack have their values.
Applying == Returning("app") /\ Len(Top.got) + 1 = Len(Top.x.v)
Applied == ByPosition(Len(Top.x.v), Append(Top.got, ctl.val))

\* proc(*vals) with a Procedure: eval(self.body, Env(self.params, args, outer=self.env))
ApplyProcedure ==
    /\ Applying /\ Applied[1].t = "proc"
    /\ LET proc == Applied[1]
           args == Tail(Applied)
           e == Len(heap) + 1
           stk == ReplaceTop(stack, [k |-> "wait", x |-> Top.x, env |-> Top.env])
       IN  /\ heap' = Append(heap, NewEnv(proc.params, args, proc.env))
           /\ ctl' = [mode |-> "eval", x |-> proc.body, env |-> e]
           /\ stack' = stk
           /\ log' = log \o <<CallEvent(proc, Len(args), Len(stk)),
                              EvalEvent(proc.body, e, Len(stk))>>
           /\ last' = [op |-> "call", proc |-> proc, args |-> args, env |-> e]
    /\ UNCHANGED lines
    /\ Reader

\* proc(*vals) with a procedure of standard_env.
ApplyPrimitive ==
    /\ Applying /\ Applied[1].t = "prim"
    /\ LET r == CallPrim(Applied[1].v, Tail(Applied))
       IN  /\ ctl' = IF r.st = "ok" THEN [mode |-> "ret", val |-> r.val]
                     ELSE [mode |-> "raise", err |-> r.err]
           /\ stack' = IF r.st = "ok" THEN Pop(stack) ELSE stack
           /\ log' = Append(log, CallEvent(Applied[1], Len(Applied) - 1, Len(stack)))
    /\ last' = [op |-> "primitive"]
    /\ UNCHANGED <<heap, lines>>
    /\ Reader

\* proc(*vals) with an object that is not callable: TypeError.
ApplyNotCallable ==
    /\ Applying /\ Applied[1].t \notin {"proc", "prim"}
    /\ Raise("TypeError")
    /\ last' = [op |-> "not-callable"]
    /\ UNCHANGED <<heap, lines>>
    /\ Reader

\* "return eval(expression, env)" and "return proc(*vals)" hand the value on.
ReturnThrough ==
    /\ Returning("wait")
    /\ Return(ctl.val, Pop(stack))
    /\ last' = [op |-> "return"]
    /\ UNCHANGED <<heap, lines>>
    /\ Reader

\* The outermost eval returns to repl.
Finish ==
    /\ ctl.mode = "ret" /\ stack = <<>>
    /\ ctl' = [mode |-> "done", res |-> Ok(ctl.val)]
    /\ last' = [op |-> "finish"]
    /\ UNCHANGED <<heap, stack, lines, log>>
    /\ Reader

\* No activation of eval catches: the exception unwinds them all and reaches
\* the except clause of repl.
Propagate ==
    /\ ctl.mode = "raise"
    /\ ctl' = [mode |-> "done", res |-> Raised(ctl.err)]
    /\ stack' = <<>>
    /\ last' = [op |-> "propagate"]
    /\ UNCHANGED <<heap, lines, log>>
    /\ Reader

\* The frames a value refers to: the env of each Procedure in it.
RECURSIVE EnvsIn(_)
EnvsIn(v) ==
    IF v.t = "proc" THEN {v.env}
    ELSE IF v.t = "list" THEN UNION {EnvsIn(v.v[i]) : i \in 1..Len(v.v)}
    ELSE {}

\* The frames reachable from the frames R through outer and through bindings.
RECURSIVE Reachable(_, _)
Reachable(h, R) ==
    LET more == (R \cup {h[e].outer : e \in R}
                   \cup UNION {UNION {EnvsIn(h[e].vars[s]) : s \in DOMAIN h[e].vars} : e \in R}) \ {0}
    IN  IF more = R THEN R ELSE Reachable(h, more)

\* Frames above the last one the default environment still reaches are
\* released once the line's value is dropped.
Collect(h) ==
    LET R == Reachable(h, {1})
        top == CHOOSE m \in R : \A e \in R : e <= m
    IN  SubSeq(h, 1, top)

\* repl prints the value or the error and loops.
ReplLoop ==
    /\ ctl.mode = "done"
    /\ ctl' = [mode |-> "idle"]
    /\ heap' = Collect(heap)
    /\ log' = <<>>
    /\ last' = [op |-> "print"]
    /\ UNCHANGED <<stack, lines>>
    /\ Reader

Init ==
    /\ heap = <<standard_env>>
    /\ ctl = [mode |-> "idle"]
    /\ stack = <<>>
    /\ lines = 0
    /\ log = <<>>
    /\ last = [op |-> "start"]
    /\ src = <<>>
    /\ out = [st |-> "none"]

Next ==
    \/ \E line \in Programs : Submit(line)
    \/ EvalSymbol
    \/ EvalConstant
    \/ EvalMalformed
    \/ EvalQuote
    \/ EvalIf
    \/ IfBranch
    \/ EvalDefine
    \/ DefineBind
    \/ EvalSet
    \/ SetStore
    \/ EvalLambda
    \/ EvalApply
    \/ ApplyNext
    \/ ApplyProcedure
    \/ ApplyPrimitive
    \/ ApplyNotCallable
    \/ ReturnThrough
    \/ Finish
    \/ Propagate
    \/ ReplLoop

Spec == Init /\ [][Next]_vars

\* ---------------------------------------------------------------- the reader alone

\* The interpreter at rest, for the specifications of the reader functions.
InterpreterIdle ==
    /\ heap = <<standard_env>>
    /\ ctl = [mode |-> "idle"]
    /\ stack = <<>>
    /\ lines = 0
    /\ log = <<>>
    /\ last = [op |-> "start"]

\* Tokens as tokenize yields them: a parenthesis alone, or a run of other characters.
ReadTokens == {<<"(">>, <<")">>, <<"a">>, <<"1">>}

TokenLists == UNION {[1..n -> ReadTokens] : n \in 0..MaxTokens}

InitRead ==
    /\ InterpreterIdle
    /\ src \in TokenLists
    /\ out = [st |-> "none"]

\* parse: read_from_tokens is applied to the token list.
Read ==
    /\ out.st = "none"
    /\ out' = read_from_tokens(src)
    /\ UNCHANGED <<heap, ctl, stack, lines, log, last, src>>

NextRead == Read

SpecRead == InitRead /\ [][NextRead]_vars

AtomChars == {"1", "5", "-", ".", "e", "a"}

AtomTokens == UNION {[1..n -> AtomChars] : n \in 1..MaxTokLen}

InitAtom ==
    /\ InterpreterIdle
    /\ src \in AtomTokens
    /\ out = [st |-> "none"]

\* atom is applied to the token.
Atomize ==
    /\ out.st = "none"
    /\ out' = atom(src)
    /\ UNCHANGED <<heap, ctl, stack, lines, log, last, src>>

NextAtom == Atomize

SpecAtom == InitAtom /\ [][NextAtom]_vars

\* ---------------------------------------------------------------- properties

\* The innermost frame of the chain from e that binds var, 0 when none does:
\* the chain is followed through every outer, whatever the frames hold.
RECURSIVE Innermost(_, _, _)
Innermost(h, e, var) ==
    IF var \in DOMAIN h[e].vars THEN e
    ELSE IF h[e].outer = 0 THEN 0
    ELSE Innermost(h, h[e].outer, var)

\* C1: every find the evaluator performs (a symbol lookup, the target of a
\* set!) yields the innermost frame of the chain that binds the symbol, and it
\* raises only when no frame of the chain binds it.
C1_FindInnermost ==
    /\ last.op = "lookup" =>
          LET t == Innermost(heap, last.env, last.sym)
          IN  IF t = 0 THEN ctl.mode = "raise"
              ELSE ctl.mode = "ret" /\ ctl.val = heap[t].vars[last.sym]
    /\ last.op = "set!" => last.frame = Innermost(heap, last.env, last.sym)

\* C2: a Procedure call evaluates the body in a new frame whose outer is the
\* captured environment, and a symbol the body looks up that the new frame does
\* not bind, but the captured chain does, gets the captured chain's binding.
C2_ClosureResolves ==
    /\ last.op = "call" =>
          /\ ctl = [mode |-> "eval", x |-> last.proc.body, env |-> last.env]
          /\ last.env = Len(heap)
          /\ heap[last.env].outer = last.proc.env
    /\ (last.op = "lookup" /\ last.env # 1 /\ last.sym \notin DOMAIN heap[last.env].vars
          /\ Innermost(heap, heap[last.env].outer, last.sym) # 0) =>
          /\ ctl.mode = "ret"
          /\ ctl.val = heap[Innermost(heap, heap[last.env].outer, last.sym)].vars[last.sym]

\* C3: once the expression of (set! s e) has its value v, the store writes v
\* to s in the innermost frame of the chain that binds s and changes nothing
\* else; when no frame of the chain binds s it raises and the heap is as it was.
C3_SetInnermost ==
    [][Returning("set") =>
          LET s == Args(Top.x)[1].v
              t == Innermost(heap, Top.env, s)
          IN  IF t = 0
              THEN ctl'.mode = "raise" /\ heap' = heap
              ELSE /\ ctl' = [mode |-> "ret", val |-> NoneV]
                   /\ Len(heap') = Len(heap)
                   /\ \A e \in 1..Len(heap) : \A n \in DOMAIN heap[e].vars :
                         heap'[e].vars[n] = IF e = t /\ n = s THEN ctl.val ELSE heap[e].vars[n]
                   /\ \A e \in 1..Len(heap) :
                         /\ DOMAIN heap'[e].vars = DOMAIN heap[e].vars
                         /\ heap'[e].outer = heap[e].outer]_vars

\* What a lookup of s from frame e gives: the value, or that it raises.
LookupIn(h, e, s) ==
    IF Find(h, e, s) = 0 THEN Raised("ValueError") ELSE Ok(h[Find(h, e, s)].vars[s])

\* C4: once the expression of (define s e) has its value v, the binding step
\* sets s to v in env's own frame, leaves its other bindings and every other
\* frame as they were; a lookup of s from env then gives v, and a lookup of s
\* from env's outer frame gives what it gave before.
C4_DefineOwnFrame ==
    [][Returning("define") =>
          LET s == Args(Top.x)[1].v
              e == Top.env
          IN  /\ Len(heap') = Len(heap)
              /\ \A k \in 1..Len(heap) : k # e => heap'[k] = heap[k]
              /\ heap'[e].outer = heap[e].outer
              /\ DOMAIN heap'[e].vars = DOMAIN heap[e].vars \cup {s}
              /\ \A n \in DOMAIN heap[e].vars : n # s => heap'[e].vars[n] = heap[e].vars[n]
              /\ LookupIn(heap', e, s) = Ok(ctl.val)
              /\ heap[e].outer # 0 =>
                    LookupIn(heap', heap[e].outer, s) = LookupIn(heap, heap[e].outer, s)]_vars

\* A define has just bound s in a frame of a call while an outer frame of the
\* chain binds s to another value.
C4_Witness ==
    /\ last.op = "define" /\ last.env # 1
    /\ LET o == heap[last.env].outer
       IN  /\ Find(heap, o, last.sym) # 0
           /\ heap[Find(heap, o, last.sym)].vars[last.sym] # last.val
           /\ heap[last.env].vars[last.sym] = last.val

\* C5: the branch taken is the consequence unless the test value is false or
\* the empty list, zero included among the values that take the consequence;
\* the branch taken is the one expression evaluated next.
C5_IfTruthiness ==
    last.op = "if" =>
        LET expected == IF last.test \in {BoolV(FALSE), ListV(<<>>)} THEN 3 ELSE 2
        IN  /\ last.branch = expected
            /\ ctl = [mode |-> "eval", x |-> Args(Top.x)[expected], env |-> Top.env]
            /\ log[Len(log)] = EvalEvent(Args(Top.x)[expected], Top.env, Len(stack))

\* C6: read_from_tokens returns an expression or raises SyntaxError, never
\* another error; the empty list and a leading ")" raise.
C6_ReadSyntaxError ==
    out.st # "none" =>
        /\ out.st = "raise" => out.err = "SyntaxError"
        /\ (src = <<>> \/ Head(src) = <<")">>) => out.st = "raise"

\* C7: atom never raises; a token the numeric test accepts gives a number (1.5
\* gives the float 1.5), any other token gives the token as a symbol.
C7_AtomTotal ==
    out.st # "none" =>
        /\ out.st = "ok"
        /\ LooksNumeric(src) => out.val.t \in {"int", "float"}
        /\ ~LooksNumeric(src) => out.val = SymV(src)
        /\ src = <<"1", ".", "5">> => out.val = FloatV(15, 0 - 1)

\* C8: the frame of a call binds params[i] to args[i] for the indices below
\* the shorter length and nothing else; a parameter left without argument is
\* found from the new frame where the captured chain binds it, and not at all
\* when the captured chain does not bind it.
C8_ZipBinding ==
    last.op = "call" =>
        LET ps == last.proc.params.v
            n == IF Len(ps) < Len(last.args) THEN Len(ps) ELSE Len(last.args)
            f == heap[last.env]
        IN  /\ DOMAIN f.vars = {ps[i].v : i \in 1..n}
            /\ \A i \in 1..n : f.vars[ps[i].v] = last.args[i]
            /\ \A i \in (n + 1)..Len(ps) :
                  Find(heap, last.env, ps[i].v) = Innermost(heap, last.proc.env, ps[i].v)

\* The applications among the eval calls of the log.
IsApplication(x) == IsList(x) /\ x.v # <<>> /\ ~IsSpecial(x)

\* The calls made directly by the activation that log[k] started: the events
\* one level deeper, up to the next event at its own level or above.
ChildrenOf(k) ==
    LET ends == {j \in (k + 1)..Len(log) : log[j].d <= log[k].d}
        stop == IF ends = {} THEN Len(log) + 1
                ELSE CHOOSE j \in ends : \A i \in ends : j <= i
        IsChild(ev) == ev.d = log[k].d + 1
    IN  SelectSeq(SubSeq(log, k + 1, stop - 1), IsChild)

\* The direct calls of an application so far are a prefix of: the elements in
\* order from the operator on, each in the application's environment, then the
\* invocation with the argument count, then (for a Procedure) its body.
InOrder(k) ==
    LET x == log[k].x
        n == Len(x.v)
        c == ChildrenOf(k)
    IN  /\ Len(c) <= n + 2
        /\ \A i \in 1..Len(c) :
              IF i <= n THEN c[i] = EvalEvent(x.v[i], log[k].env, log[k].d + 1)
              ELSE IF i = n + 1 THEN c[i].ev = "call" /\ c[i].n = n - 1
              ELSE c[i - 1].f.t = "proc" /\ c[i].ev = "eval" /\ c[i].x = c[i - 1].f.body

\* An element that is the symbol just defined by the element before it has
\* the value that define gave it.
SeesEarlierDefine ==
    Returning("app") =>
        LET j == Len(Top.got) + 1
            x == Top.x.v
        IN  (j >= 2 /\ x[j].t = "sym" /\ IsForm(x[j - 1], "define")
                /\ Len(x[j - 1].v) = 3 /\ x[j - 1].v[2] = x[j] /\ x[j - 1].v[3].t = "int")
            => ctl.val = x[j - 1].v[3]

\* C9: an application evaluates the operator, then the arguments from left to
\* right, each once, and only then invokes the callable; an element sees the
\* effect of the one before it; after a failure nothing more is evaluated or
\* invoked: the error goes to repl with the log and the heap as they are.
C9_LeftToRight ==
    /\ [](/\ \A k \in 1..Len(log) :
                (log[k].ev = "eval" /\ IsApplication(log[k].x)) => InOrder(k)
          /\ SeesEarlierDefine)
    /\ [][ctl.mode = "raise" =>
            ctl' = [mode |-> "done", res |-> Raised(ctl.err)] /\ log' = log /\ heap' = heap]_vars

\* The second argument of a three-element application failed after the
\* operator was evaluated: the third element is not evaluated and nothing is invoked.
C9_Witness ==
    /\ ctl.mode = "raise" /\ stack # <<>> /\ Top.k = "app"
    /\ Len(Top.got) = 1 /\ Len(Top.x.v) = 3
    /\ Len(ChildrenOf(CHOOSE k \in 1..Len(log) :
            log[k] = EvalEvent(Top.x, Top.env, Len(stack) - 1))) = 2

\* The binding of s in frame e, or that there is none.
BindingOf(h, e, s) == IF s \in DOMAIN h[e].vars THEN Ok(h[e].vars[s]) ELSE [st |-> "unbound"]

\* The step completes an assignment (define or set!) whose value is ready.
CompletesAssignment == ctl.mode = "ret" /\ stack # <<>> /\ Top.k \in {"define", "set"}

\* C10: while the expression of (define s e) is being evaluated, from the
\* step that starts it to the step that hands its error to repl, the binding
\* of s in env's frame changes only by an assignment that completes; so when
\* the evaluation fails the binding is as it was when the failure was raised,
\* and the error reaches repl with no activation catching it.
C10_NoPartialBinding ==
    [][/\ \A i \in 1..Len(stack) :
             (stack[i].k = "define" /\ ~CompletesAssignment) =>
                 BindingOf(heap', stack[i].env, Args(stack[i].x)[1].v)
                     = BindingOf(heap, stack[i].env, Args(stack[i].x)[1].v)
       /\ \A i \in (Len(stack) + 1)..Len(stack') :
             stack'[i].k = "define" =>
                 BindingOf(heap', stack'[i].env, Args(stack'[i].x)[1].v)
                     = BindingOf(heap, stack'[i].env, Args(stack'[i].x)[1].v)
       /\ ctl.mode = "raise" =>
             ctl' = [mode |-> "done", res |-> Raised(ctl.err)] /\ stack' = <<>>]_vars

\* The evaluation of the expression of a define has raised, with the define
\* still waiting for the value.
C10_Witness ==
    /\ ctl.mode = "raise"
    /\ \E i \in 1..Len(stack) : stack[i].k = "define"

====
